---- MODULE Spec2Model ----
(***************************************************************************)
(* The contact-form worker (src/src/worker/index.ts): POST /api/contact is  *)
(* the zod validator middleware followed by the handler, which checks the   *)
(* Slack configuration, formats the message, issues one chat.postMessage    *)
(* call, awaits it and answers once that call has settled.                  *)
(*                                                                          *)
(* Strings are sequences of one-character strings, so that length checks    *)
(* and the e-mail grammar are computed, not assumed.  JSON values carry     *)
(* their type tag: [t |-> "undefined" | "string", v |-> characters].        *)
(***************************************************************************)
EXTENDS Integers, Sequences, FiniteSets, TLC

\* Number of inbound requests in flight in one run.
NumRequests == 2
Requests == 1..NumRequests

-----------------------------------------------------------------------------
(* JSON values and request bodies *)

Undefined == [t |-> "undefined", v |-> <<>>]
Str(s) == [t |-> "string", v |-> s]

NameValues ==
  {Undefined, Str(<<>>), Str(<<"A", "n", "a">>)}
EmailValues ==
  {Undefined, Str(<<>>), Str(<<"b", "a", "d">>),
   Str(<<"a", "@", "b", ".", "c">>),
   Str(<<"a", "@", "b", ".", "c", "o">>)}
MessageValues ==
  {Undefined, Str(<<>>), Str(<<"H", "i">>)}

\* A body that parsed as JSON but is not an object (null, an array, ...).
NullBody ==
  [t |-> "null", name |-> Undefined, email |-> Undefined, message |-> Undefined]
\* Before the request has arrived.
NoBody ==
  [t |-> "none", name |-> Undefined, email |-> Undefined, message |-> Undefined]
ObjectBodies ==
  [t : {"object"}, name : NameValues, email : EmailValues, message : MessageValues]
Bodies == ObjectBodies \cup {NullBody}

\* The bindings the worker can be deployed with: both set, either one
\* undefined or empty, or neither set.
Token == Str(<<"x", "o", "x", "b">>)
Channel == Str(<<"C", "1">>)
AppEnv(token, channel) == [SLACK_TOKEN |-> token, SLACK_CHANNEL_ID |-> channel]
Envs ==
  {AppEnv(Token, Channel),
   AppEnv(Undefined, Channel), AppEnv(Str(<<>>), Channel),
   AppEnv(Token, Undefined), AppEnv(Token, Str(<<>>)),
   AppEnv(Undefined, Undefined)}

\* What the Slack client can reject with.
ProviderErrors == {"channel_not_found", "fetch failed"}

\* Readings of the clock: hours since 1 January 00:00 UTC.
Times == {0, 21}

-----------------------------------------------------------------------------
\* zod: z.string().email().  The pattern, case-insensitive, is
\*   start, not followed by "." and with no ".." anywhere;
\*   local part: any number of [A-Z0-9_'+-.] then one of [A-Z0-9_+-];
\*   "@";
\*   domain: one or more labels [A-Z0-9][A-Z0-9-]* each followed by ".",
\*   then two or more letters [A-Z]; end.

Letter == {"a", "b", "c", "d", "n", "o", "x", "i", "A", "C", "H"}
Digit == {"0", "1", "2"}
AlNum == Letter \cup Digit
LocalChar == AlNum \cup {"_", "'", "+", "-", "."}
LocalLast == AlNum \cup {"_", "+", "-"}
LabelChar == AlNum \cup {"-"}

HasDoubleDot(s) ==
  \E i \in 1..(Len(s) - 1) : s[i] = "." /\ s[i + 1] = "."

LocalPartOK(l) ==
  /\ Len(l) >= 1
  /\ \A i \in 1..Len(l) : l[i] \in LocalChar
  /\ l[Len(l)] \in LocalLast

\* ([A-Z0-9][A-Z0-9\-]*\.)+ : d[1..n] is one or more labels, each ending in "."
RECURSIVE LabelsOK(_)
LabelsOK(d) ==
  /\ Len(d) >= 2
  /\ d[1] \in AlNum
  /\ \E k \in 2..Len(d) :
       /\ d[k] = "."
       /\ \A i \in 2..(k - 1) : d[i] \in LabelChar
       /\ (k = Len(d) \/ LabelsOK(SubSeq(d, k + 1, Len(d))))

DomainOK(d) ==
  \E n \in 2..(Len(d) - 2) :
    /\ LabelsOK(SubSeq(d, 1, n))
    /\ \A i \in (n + 1)..Len(d) : d[i] \in Letter

IsEmail(s) ==
  /\ Len(s) >= 1
  /\ s[1] # "."
  /\ ~HasDoubleDot(s)
  /\ \E at \in 1..Len(s) :
       /\ s[at] = "@"
       /\ LocalPartOK(SubSeq(s, 1, at - 1))
       /\ DomainOK(SubSeq(s, at + 1, Len(s)))

-----------------------------------------------------------------------------
(* zod: the schema *)

Issue(path, code, message) == [path |-> path, code |-> code, message |-> message]

\* A missing key fails z.string() with "Required".
InvalidType(path, v) == <<Issue(path, "invalid_type", "Required")>>

MinIssue(path, v, message) ==
  IF Len(v.v) >= 1 THEN <<>> ELSE <<Issue(path, "too_small", message)>>

EmailIssue(path, v, message) ==
  IF IsEmail(v.v) THEN <<>> ELSE <<Issue(path, "invalid_string", message)>>

\* name: z.string().min(1, "Full name is required")
NameIssues(v) ==
  IF v.t # "string" THEN InvalidType(<<"name">>, v)
  ELSE MinIssue(<<"name">>, v, "Full name is required")

\* Variant: the .email() check left out of the chain.
EmailIssuesMinOnly(v) ==
  IF v.t # "string" THEN InvalidType(<<"email">>, v)
  ELSE MinIssue(<<"email">>, v, "Email is required")

\* email: z.string().min(1, "Email is required").email("Email is invalid")
\* (every check of a string runs; an empty string fails both)
EmailIssues(v) ==
  IF v.t # "string" THEN InvalidType(<<"email">>, v)
  ELSE MinIssue(<<"email">>, v, "Email is required")
         \o EmailIssue(<<"email">>, v, "Email is invalid")

\* message: z.string().min(1, "Message is required")
MessageIssues(v) ==
  IF v.t # "string" THEN InvalidType(<<"message">>, v)
  ELSE MinIssue(<<"message">>, v, "Message is required")

\* z.object({...}).safeParse(body): the list of issues, empty when it parses.
contactSchema(b) ==
  IF b.t # "object"
  THEN <<Issue(<<>>, "invalid_type", "Expected object, received null")>>
  ELSE NameIssues(b.name) \o EmailIssues(b.email) \o MessageIssues(b.message)

\* type ContactForm: the parsed output.
NoData == [name |-> <<>>, email |-> <<>>, message |-> <<>>]
ContactForm(b) == [name |-> b.name.v, email |-> b.email.v, message |-> b.message.v]

-----------------------------------------------------------------------------
(* formatSlackMessage *)

\* Europe/Istanbul is UTC+3 all year.
IstanbulOffset == 3

\* new Date().toLocaleString("en-GB", {dateStyle: "long", timeStyle: "short",
\*                                     timeZone: "Europe/Istanbul"})
toLocaleString(now) ==
  LET local == now + IstanbulOffset
      day == 1 + (local \div 24)
      hour == local % 24
  IN <<ToString(day), " January 2025 at ",
       IF hour < 10 THEN "0" \o ToString(hour) ELSE ToString(hour), ":00">>

formatSlackMessage(d, now) ==
  [blocks |->
    << [type |-> "header",
        text |-> [type |-> "plain_text",
                  text |-> <<"(speech balloon) New Contact Form Submission">>,
                  emoji |-> TRUE]],
       [type |-> "section",
        fields |-> << [type |-> "mrkdwn", text |-> <<"*Name:*\n">> \o d.name],
                      [type |-> "mrkdwn", text |-> <<"*Email:*\n">> \o d.email] >>],
       [type |-> "section",
        text |-> [type |-> "mrkdwn", text |-> <<"*Message:*\n">> \o d.message]],
       [type |-> "context",
        elements |-> << [type |-> "mrkdwn",
                         text |-> <<"(calendar) ">> \o toLocaleString(now)] >>] >>]

-----------------------------------------------------------------------------
(* The responses of POST /api/contact *)

Json(status, body) == [status |-> status, body |-> body]

\* zValidator's default hook: c.json(result, 400) with the failed parse.
ValidationErrorResponse(issues) ==
  Json(400, [success |-> FALSE, error |-> [issues |-> issues, name |-> "ZodError"]])

ConfigErrorResponse ==
  Json(500, [success |-> FALSE, error |-> "Server configuration error"])

\* Variant: the success body sent without its message.
SuccessResponseBare == Json(200, [success |-> TRUE])

SuccessResponse ==
  Json(200, [success |-> TRUE, message |-> "Your message has been sent successfully!"])

InternalErrorResponse ==
  Json(500, [success |-> FALSE, error |-> "Internal server error"])

\* JavaScript truthiness of a binding: undefined and "" are falsy.
Truthy(v) == v.t = "string" /\ Len(v.v) > 0

\* Variant: only the token is checked.
ConfigMissingTokenOnly(e) == ~Truthy(e.SLACK_TOKEN)

\* !c.env.SLACK_TOKEN || !c.env.SLACK_CHANNEL_ID
ConfigMissing(e) == ~Truthy(e.SLACK_TOKEN) \/ ~Truthy(e.SLACK_CHANNEL_ID)

\* Variant: the token passed where the channel id belongs.
PostMessageArgsWrongChannel(e, d, now) ==
  [channel |-> e.SLACK_TOKEN,
   text |-> <<"New contact from ">> \o d.name,
   blocks |-> formatSlackMessage(d, now).blocks]

\* The argument of slack.chat.postMessage.
PostMessageArgs(e, d, now) ==
  [channel |-> e.SLACK_CHANNEL_ID,
   text |-> <<"New contact from ">> \o d.name,
   blocks |-> formatSlackMessage(d, now).blocks]

\* new WebClient(token), and the calls made through it.
NoClient == [token |-> Undefined, calls |-> <<>>]
WebClient(token) == [token |-> token, calls |-> <<>>]

\* The promise of the postMessage call.
NoCall == [state |-> "none", error |-> ""]
PendingCall == [state |-> "pending", error |-> ""]
FulfilledCall == [state |-> "fulfilled", error |-> ""]
RejectedCall(err) == [state |-> "rejected", error |-> err]

-----------------------------------------------------------------------------
(* State *)

VARIABLES
  env,      \* c.env: the bindings, the same for every request
  pc,       \* where each request is: idle, validated, awaiting, responded
  body,     \* the JSON body each request arrived with
  data,     \* c.req.valid("json") of each request
  slack,    \* the WebClient each handler constructed, with the calls made
  promise,  \* the postMessage promise each handler awaits
  resp,     \* the responses sent for each request, in order
  log,      \* what handling each request wrote with console.error
  stages    \* the stages each request has passed through, in order

vars == <<env, pc, body, data, slack, promise, resp, log, stages>>

Init ==
  /\ env \in Envs
  /\ pc = [r \in Requests |-> "idle"]
  /\ body = [r \in Requests |-> NoBody]
  /\ data = [r \in Requests |-> NoData]
  /\ slack = [r \in Requests |-> NoClient]
  /\ promise = [r \in Requests |-> NoCall]
  /\ resp = [r \in Requests |-> <<>>]
  /\ log = [r \in Requests |-> <<>>]
  /\ stages = [r \in Requests |-> <<>>]

\* Variant: the configuration is checked ahead of the body.
ValidatorConfigFirst(r, b) ==
  /\ pc[r] = "idle"
  /\ body' = [body EXCEPT ![r] = b]
  /\ IF ConfigMissing(env)
     THEN /\ resp' = [resp EXCEPT ![r] = Append(@, ConfigErrorResponse)]
          /\ pc' = [pc EXCEPT ![r] = "responded"]
          /\ stages' = [stages EXCEPT ![r] = @ \o <<"config", "respond">>]
          /\ UNCHANGED data
     ELSE IF contactSchema(b) # <<>>
     THEN /\ resp' = [resp EXCEPT ![r] =
                        Append(@, ValidationErrorResponse(contactSchema(b)))]
          /\ pc' = [pc EXCEPT ![r] = "responded"]
          /\ stages' = [stages EXCEPT ![r] = @ \o <<"config", "validate", "respond">>]
          /\ UNCHANGED data
     ELSE /\ data' = [data EXCEPT ![r] = ContactForm(b)]
          /\ pc' = [pc EXCEPT ![r] = "validated"]
          /\ stages' = [stages EXCEPT ![r] = @ \o <<"config", "validate">>]
          /\ UNCHANGED resp
  /\ UNCHANGED <<env, slack, promise, log>>

\* zValidator("json", contactSchema): request r arrives with body b; a body
\* that fails the schema is answered here and the handler never runs.
Validator(r, b) ==
  /\ pc[r] = "idle"
  /\ body' = [body EXCEPT ![r] = b]
  /\ LET issues == contactSchema(b) IN
       IF issues # <<>>
       THEN /\ resp' = [resp EXCEPT ![r] = Append(@, ValidationErrorResponse(issues))]
            /\ pc' = [pc EXCEPT ![r] = "responded"]
            /\ stages' = [stages EXCEPT ![r] = @ \o <<"validate", "respond">>]
            /\ UNCHANGED data
       ELSE /\ data' = [data EXCEPT ![r] = ContactForm(b)]
            /\ pc' = [pc EXCEPT ![r] = "validated"]
            /\ stages' = [stages EXCEPT ![r] = @ \o <<"validate">>]
            /\ UNCHANGED resp
  /\ UNCHANGED <<env, slack, promise, log>>

\* Variant: postMessage is not awaited; the handler answers at once.
HandlerNoAwait(r, now) ==
  /\ pc[r] = "validated"
  /\ IF ConfigMissing(env)
     THEN /\ log' = [log EXCEPT ![r] =
                       Append(@, <<"SLACK_TOKEN or SLACK_CHANNEL_ID is not configured">>)]
          /\ resp' = [resp EXCEPT ![r] = Append(@, ConfigErrorResponse)]
          /\ stages' = [stages EXCEPT ![r] = @ \o <<"config", "respond">>]
          /\ UNCHANGED <<slack, promise>>
     ELSE /\ slack' = [slack EXCEPT ![r] =
                         [WebClient(env.SLACK_TOKEN) EXCEPT
                            !.calls = <<PostMessageArgs(env, data[r], now)>>]]
          /\ promise' = [promise EXCEPT ![r] = PendingCall]
          /\ resp' = [resp EXCEPT ![r] = Append(@, SuccessResponse)]
          /\ stages' = [stages EXCEPT ![r] =
                          @ \o <<"config", "format", "deliver", "respond">>]
          /\ UNCHANGED log
  /\ pc' = [pc EXCEPT ![r] = "responded"]
  /\ UNCHANGED <<env, body, data>>

\* Variant: the parsed body is kept in one place shared by all requests, so
\* the handler may format what another request left there.
HandlerSharedData(r, now) ==
  /\ pc[r] = "validated"
  /\ IF ConfigMissing(env)
     THEN /\ log' = [log EXCEPT ![r] =
                       Append(@, <<"SLACK_TOKEN or SLACK_CHANNEL_ID is not configured">>)]
          /\ resp' = [resp EXCEPT ![r] = Append(@, ConfigErrorResponse)]
          /\ pc' = [pc EXCEPT ![r] = "responded"]
          /\ stages' = [stages EXCEPT ![r] = @ \o <<"config", "respond">>]
          /\ UNCHANGED <<slack, promise>>
     ELSE /\ \E q \in Requests :
               slack' = [slack EXCEPT ![r] =
                           [WebClient(env.SLACK_TOKEN) EXCEPT
                              !.calls = <<PostMessageArgs(env, data[q], now)>>]]
          /\ promise' = [promise EXCEPT ![r] = PendingCall]
          /\ pc' = [pc EXCEPT ![r] = "awaiting"]
          /\ stages' = [stages EXCEPT ![r] = @ \o <<"config", "format", "deliver">>]
          /\ UNCHANGED <<resp, log>>
  /\ UNCHANGED <<env, body, data>>

\* The handler up to its await: the configuration check, then new WebClient,
\* formatSlackMessage at clock reading now, and the postMessage call.
Handler(r, now) ==
  /\ pc[r] = "validated"
  /\ IF ConfigMissing(env)
     THEN /\ log' = [log EXCEPT ![r] =
                       Append(@, <<"SLACK_TOKEN or SLACK_CHANNEL_ID is not configured">>)]
          /\ resp' = [resp EXCEPT ![r] = Append(@, ConfigErrorResponse)]
          /\ pc' = [pc EXCEPT ![r] = "responded"]
          /\ stages' = [stages EXCEPT ![r] = @ \o <<"config", "respond">>]
          /\ UNCHANGED <<slack, promise>>
     ELSE /\ slack' = [slack EXCEPT ![r] =
                         [WebClient(env.SLACK_TOKEN) EXCEPT
                            !.calls = <<PostMessageArgs(env, data[r], now)>>]]
          /\ promise' = [promise EXCEPT ![r] = PendingCall]
          /\ pc' = [pc EXCEPT ![r] = "awaiting"]
          /\ stages' = [stages EXCEPT ![r] = @ \o <<"config", "format", "deliver">>]
          /\ UNCHANGED <<resp, log>>
  /\ UNCHANGED <<env, body, data>>

\* The postMessage call succeeds: the awaited promise is fulfilled.
PostMessageResolve(r) ==
  /\ promise[r].state = "pending"
  /\ promise' = [promise EXCEPT ![r] = FulfilledCall]
  /\ UNCHANGED <<env, pc, body, data, slack, resp, log, stages>>

\* The postMessage call fails with err: the awaited promise is rejected.
PostMessageReject(r, err) ==
  /\ promise[r].state = "pending"
  /\ promise' = [promise EXCEPT ![r] = RejectedCall(err)]
  /\ UNCHANGED <<env, pc, body, data, slack, resp, log, stages>>

\* Variant: the provider's error is echoed to the caller.
HandlerResumeLeaky(r) ==
  /\ pc[r] = "awaiting"
  /\ promise[r].state \in {"fulfilled", "rejected"}
  /\ IF promise[r].state = "fulfilled"
     THEN /\ resp' = [resp EXCEPT ![r] = Append(@, SuccessResponse)]
          /\ UNCHANGED log
     ELSE /\ log' = [log EXCEPT ![r] =
                       Append(@, <<"Error sending to Slack:", promise[r].error>>)]
          /\ resp' = [resp EXCEPT ![r] =
                        Append(@, Json(500, [success |-> FALSE,
                                             error |-> promise[r].error]))]
  /\ pc' = [pc EXCEPT ![r] = "responded"]
  /\ stages' = [stages EXCEPT ![r] = @ \o <<"respond">>]
  /\ UNCHANGED <<env, body, data, slack, promise>>

\* Variant: no catch block; a rejection leaves the request unanswered.
HandlerResumeUncaught(r) ==
  /\ pc[r] = "awaiting"
  /\ promise[r].state \in {"fulfilled", "rejected"}
  /\ IF promise[r].state = "fulfilled"
     THEN /\ resp' = [resp EXCEPT ![r] = Append(@, SuccessResponse)]
          /\ pc' = [pc EXCEPT ![r] = "responded"]
          /\ stages' = [stages EXCEPT ![r] = @ \o <<"respond">>]
     ELSE /\ pc' = [pc EXCEPT ![r] = "fault"]
          /\ UNCHANGED <<resp, stages>>
  /\ UNCHANGED <<env, body, data, slack, promise, log>>

\* Variant: the catch block logs the error and still reports success.
HandlerResumeSwallowed(r) ==
  /\ pc[r] = "awaiting"
  /\ promise[r].state \in {"fulfilled", "rejected"}
  /\ IF promise[r].state = "fulfilled"
     THEN UNCHANGED log
     ELSE log' = [log EXCEPT ![r] =
                    Append(@, <<"Error sending to Slack:", promise[r].error>>)]
  /\ resp' = [resp EXCEPT ![r] = Append(@, SuccessResponse)]
  /\ pc' = [pc EXCEPT ![r] = "responded"]
  /\ stages' = [stages EXCEPT ![r] = @ \o <<"respond">>]
  /\ UNCHANGED <<env, body, data, slack, promise>>

\* The handler after its await: the success response when the call was
\* fulfilled; when it was rejected, the catch block logs the error and
\* returns the generic error response.
HandlerResume(r) ==
  /\ pc[r] = "awaiting"
  /\ promise[r].state \in {"fulfilled", "rejected"}
  /\ IF promise[r].state = "fulfilled"
     THEN /\ resp' = [resp EXCEPT ![r] = Append(@, SuccessResponse)]
          /\ UNCHANGED log
     ELSE /\ log' = [log EXCEPT ![r] =
                       Append(@, <<"Error sending to Slack:", promise[r].error>>)]
          /\ resp' = [resp EXCEPT ![r] = Append(@, InternalErrorResponse)]
  /\ pc' = [pc EXCEPT ![r] = "responded"]
  /\ stages' = [stages EXCEPT ![r] = @ \o <<"respond">>]
  /\ UNCHANGED <<env, body, data, slack, promise>>

Next ==
  \/ \E r \in Requests, b \in Bodies : Validator(r, b)
  \/ \E r \in Requests, now \in Times : Handler(r, now)
  \/ \E r \in Requests : PostMessageResolve(r)
  \/ \E r \in Requests, err \in ProviderErrors : PostMessageReject(r, err)
  \/ \E r \in Requests : HandlerResume(r)

Spec == Init /\ [][Next]_vars

\* The runtime runs a handler that is ready to start or to resume, and the
\* Slack call settles one way or the other.
Fairness ==
  \A r \in Requests :
    /\ WF_vars(\E now \in Times : Handler(r, now))
    /\ WF_vars(PostMessageResolve(r) \/ \E err \in ProviderErrors : PostMessageReject(r, err))
    /\ WF_vars(HandlerResume(r))

FairSpec == Spec /\ Fairness

-----------------------------------------------------------------------------
(* The vocabulary of the properties, stated independently of the handler *)

\* A configuration value is absent when it is undefined or empty.
Absent(v) == v.t = "undefined" \/ (v.t = "string" /\ v.v = <<>>)
ConfigAbsent == Absent(env.SLACK_TOKEN) \/ Absent(env.SLACK_CHANNEL_ID)

\* Field f of body b breaks its rule: missing, empty, or (email) not an
\* address.  A body that is not an object has none of the fields.
FieldOf(b, f) ==
  IF f = "name" THEN b.name ELSE IF f = "email" THEN b.email ELSE b.message
FieldNames == {"name", "email", "message"}
Offends(b, f) ==
  \/ FieldOf(b, f).t = "undefined"
  \/ FieldOf(b, f).v = <<>>
  \/ (f = "email" /\ ~IsEmail(FieldOf(b, f).v))
WellFormed(b) == b.t = "object" /\ \A f \in FieldNames : ~Offends(b, f)
Arrived(r) == body[r].t # "none"

Is(response, status, payload) ==
  response.status = status /\ response.body = payload
ConfigErrorBody == [success |-> FALSE, error |-> "Server configuration error"]
InternalErrorBody == [success |-> FALSE, error |-> "Internal server error"]
SuccessBody ==
  [success |-> TRUE, message |-> "Your message has been sent successfully!"]

\* The issues of a 400 response that are attached to field f.
IssuesFor(response, f) ==
  {i \in 1..Len(response.body.error.issues) :
     response.body.error.issues[i].path = <<f>>}

-----------------------------------------------------------------------------
\* C1 (as stated): whenever SLACK_TOKEN or SLACK_CHANNEL_ID is absent, every
\* answered request, valid body or not, got 500 "Server configuration error"
\* and made no outbound call.
C1_ConfigErrorWhateverTheBody ==
  ConfigAbsent =>
    \A r \in Requests :
      pc[r] = "responded" =>
        /\ Len(resp[r]) = 1
        /\ Is(resp[r][1], 500, ConfigErrorBody)
        /\ slack[r].calls = <<>>

\* C1 (amended): whenever SLACK_TOKEN or SLACK_CHANNEL_ID is absent, no request
\* makes an outbound call, every answered request whose body passed
\* validation got exactly 500 "Server configuration error", and every request
\* whose body failed validation got 400.
C1_ConfigErrorForValidBody ==
  ConfigAbsent =>
    \A r \in Requests :
      /\ slack[r].calls = <<>>
      /\ promise[r].state = "none"
      /\ (pc[r] = "responded" /\ WellFormed(body[r])) =>
           /\ Len(resp[r]) = 1
           /\ Is(resp[r][1], 500, ConfigErrorBody)
      /\ (Arrived(r) /\ ~WellFormed(body[r])) =>
           /\ Len(resp[r]) = 1
           /\ resp[r][1].status = 400

C1_Witness ==
  \E r \in Requests :
    ConfigAbsent /\ pc[r] = "responded" /\ WellFormed(body[r])

C3_SuccessResponse ==
  \A r \in Requests :
    (WellFormed(body[r]) /\ ~ConfigAbsent /\ promise[r].state = "fulfilled"
                         /\ pc[r] = "responded") =>
      /\ Len(resp[r]) = 1
      /\ Is(resp[r][1], 200, SuccessBody)

C3_Witness ==
  \E r \in Requests :
    /\ WellFormed(body[r]) /\ ~ConfigAbsent
    /\ promise[r].state = "fulfilled" /\ pc[r] = "responded"

\* C4: a request whose postMessage call failed, whatever the error, is
\* answered exactly 500 {success: false, error: "Internal server error"}; the
\* error is in the server log and nowhere in the response.
C4_GenericErrorOnFailedCall ==
  \A r \in Requests :
    (promise[r].state = "rejected" /\ pc[r] = "responded") =>
      /\ Len(resp[r]) = 1
      /\ Is(resp[r][1], 500, InternalErrorBody)
      /\ resp[r][1].body.error # promise[r].error
      /\ \E i \in 1..Len(log[r]) :
           log[r][i] = <<"Error sending to Slack:", promise[r].error>>

C4_Witness ==
  \E r \in Requests :
    /\ promise[r].state = "rejected" /\ promise[r].error = "channel_not_found"
    /\ pc[r] = "responded"

\* C5: a request makes at most one postMessage call, never a second one
\* after a failure; the call goes to the configured SLACK_CHANNEL_ID through
\* a client holding the configured SLACK_TOKEN; and a request with a
\* well-formed body and present configuration, once handled, has made
\* exactly one.
C5_OneCallToConfiguredChannel ==
  \A r \in Requests :
    /\ Len(slack[r].calls) <= 1
    /\ \A i \in 1..Len(slack[r].calls) :
         /\ slack[r].calls[i].channel = env.SLACK_CHANNEL_ID
         /\ slack[r].token = env.SLACK_TOKEN
    /\ (WellFormed(body[r]) /\ ~ConfigAbsent /\ pc[r] \in {"awaiting", "responded"}) =>
         Len(slack[r].calls) = 1

\* A request whose call failed has been answered.
C5_Witness ==
  \E r \in Requests :
    /\ pc[r] = "responded"
    /\ promise[r].state = "rejected"
    /\ Len(slack[r].calls) = 1

\* C6: no request has been answered while its postMessage call is pending.
C6_NoResponseWhilePending ==
  \A r \in Requests :
    promise[r].state = "pending" => (resp[r] = <<>> /\ pc[r] = "awaiting")

\* One request still awaits its call while another, whose call has settled,
\* is answered.
C6_Witness ==
  \E r, q \in Requests :
    /\ promise[r].state = "pending"
    /\ promise[q].state = "fulfilled"
    /\ Len(resp[q]) = 1

\* The four outcomes of POST /api/contact.
IsOutcome(response) ==
  \/ /\ response.status = 400
     /\ response.body.success = FALSE
     /\ response.body.error.name = "ZodError"
     /\ response.body.error.issues # <<>>
  \/ Is(response, 500, ConfigErrorBody)
  \/ Is(response, 500, InternalErrorBody)
  \/ Is(response, 200, SuccessBody)

\* C7: given that a ready handler runs and every postMessage call settles,
\* every request that arrived is eventually answered; at all times a request
\* has at most one response, each response is one of the four outcomes, and
\* an answered request has exactly one; no request is left in a fault.
C7_EveryRequestAnsweredOnce ==
  /\ [](\A r \in Requests :
          /\ pc[r] \in {"idle", "validated", "awaiting", "responded"}
          /\ Len(resp[r]) <= 1
          /\ \A i \in 1..Len(resp[r]) : IsOutcome(resp[r][i])
          /\ (pc[r] = "responded" <=> Len(resp[r]) = 1))
  /\ \A r \in Requests :
       Arrived(r) ~> (pc[r] = "responded" /\ Len(resp[r]) = 1)

\* Every request has been answered, one of them after a failed call.
C7_Witness ==
  /\ \A r \in Requests : pc[r] = "responded" /\ Len(resp[r]) = 1
  /\ \E r \in Requests : promise[r].state = "rejected"

\* The outbound calls of a request, the clock reading left out.
CallsSansTime(r) ==
  [i \in 1..Len(slack[r].calls) |->
     [channel |-> slack[r].calls[i].channel,
      text |-> slack[r].calls[i].text,
      blocks |-> SubSeq(slack[r].calls[i].blocks, 1, 3)]]

IsPrefix(s, t) == Len(s) <= Len(t) /\ s = SubSeq(t, 1, Len(s))

\* C9: the stages of a request are, in order, validate, then only for a body
\* that passed validation the configuration check, format and deliver, then
\* respond; a request whose body fails validation is answered 400 with the
\* configuration unchecked and no outbound call.
C9_StageOrder ==
  \A r \in Requests :
    /\ \/ IsPrefix(stages[r], <<"validate", "respond">>)
       \/ IsPrefix(stages[r], <<"validate", "config", "respond">>)
       \/ IsPrefix(stages[r], <<"validate", "config", "format", "deliver", "respond">>)
    /\ (Arrived(r) /\ ~WellFormed(body[r])) =>
         /\ stages[r] = <<"validate", "respond">>
         /\ Len(resp[r]) = 1
         /\ resp[r][1].status = 400
         /\ slack[r].calls = <<>>
    /\ (Len(stages[r]) >= 2 /\ stages[r][2] = "config") => WellFormed(body[r])

\* A body that fails validation has been answered although the configuration
\* is absent.
C9_Witness ==
  \E r \in Requests :
    /\ ConfigAbsent
    /\ Arrived(r)
    /\ ~WellFormed(body[r])
    /\ pc[r] = "responded"

\* C10: a 200 response has been sent for a request only if its body is
\* well-formed, both configuration values are present, and its own
\* postMessage call was made and succeeded.
C10_SuccessOnlyIfDelivered ==
  \A r \in Requests :
    \A i \in 1..Len(resp[r]) :
      resp[r][i].status = 200 =>
        /\ WellFormed(body[r])
        /\ ~ConfigAbsent
        /\ Len(slack[r].calls) = 1
        /\ promise[r].state = "fulfilled"

\* One request was told of success while another's call had failed.
C10_Witness ==
  \E r, q \in Requests :
    /\ Len(resp[r]) = 1
    /\ resp[r][1].status = 200
    /\ promise[q].state = "rejected"
    /\ pc[q] = "responded"

====
